---- MODULE Spec2Model ----
(***************************************************************************)
(* The frontend of basic-emu-frontend: one Core behind Arc<Mutex<..>>,     *)
(* shared by the audio callback (src/lib.rs, src/audio/mod.rs) and the     *)
(* winit event loop (src/display/mod.rs), and the KEY_OVERRIDES store.     *)
(*                                                                         *)
(* The Core is a trait (src/lib.rs:29-42); its implementation is outside   *)
(* the repository.  It is modelled as the smallest total Core: a FIFO of   *)
(* pending samples and one pressed flag per logical key.  Any of its       *)
(* stepping / drawing / popping operations may panic.                      *)
(*                                                                         *)
(* on_key_pressed / on_key_released are compiled only for wasm32           *)
(* (display/mod.rs:209,213); the model is of the build that has them.      *)
(***************************************************************************)
EXTENDS Integers, Sequences, FiniteSets, TLC

\* ------------------------------------------------------------------ bounds
MaxQueue == 2
MaxOverrides == 2
MaxFrames == 2
MaxChannels == 2
MaxSkew == 2

\* --------------------------------------------------------------- constants
Silence == 0

Samples == {1, 2}
PhysKeys == {"A", "B"}
Keymaps == {<<"A", "B">>}
SyncModes == {"VSync", "AudioCallback"}

VARIABLES
    sync_mode,      \* SyncModes value given to Frontend::new
    keymap,         \* Keymap::get_keys(): sequence of physical keys
    holders,        \* contexts that hold a MutexGuard of the Core
    poisoned,       \* the Mutex's poison flag
    cause,          \* per context: why it panicked ("none", "core", "poison")
    queue,          \* Core: FIFO of pending samples
    keys,           \* Core: pressed flag per logical index 0..N-1
    nSps,           \* Core: calls of set_seconds_per_output_sample
    nCh,            \* Core: calls of set_num_output_channels
    coreOp,         \* the Core operation performed by the latest step
    apc,            \* audio context: position
    frames,         \* audio callback: requested frames
    afterExit,      \* audio callback: it began after the event loop had exited
    channels,       \* StreamConfig.channels of the output device
    slot,           \* audio callback: index into data
    calls,          \* audio callback: get_sample() closure invocations
    lenAtEntry,     \* producer invocation: queue length after locking
    lenAtPop,       \* producer invocation: queue length at the last pop
    ranInst,        \* producer invocation: run_inst() was called
    pops,           \* producer invocation: get_sample() calls
    popped,         \* producer invocation: value of the last get_sample()
    ret,            \* producer invocation: value the closure returns
    upc,            \* main/UI context: position
    idx,            \* input batch: loop variable i
    prev,           \* input batch: _prev_key_pressed
    pressed,        \* input batch: input.key_pressed(keymap[i]) as read for i
    held,           \* input batch: input.key_held(keymap[i]) as read for i
    redraw_requested, \* window.request_redraw() is pending
    exit,           \* control_flow = ControlFlow::Exit
    overrides,      \* KEY_OVERRIDES
    released,       \* physical keys whose last exported call was release_key
    tickLog,        \* input batch: calls made so far, in order
    keysPrevTick,   \* Core key flags at the end of the previous input batch
    skew            \* VSync: run_frame() calls minus redraw ticks (clamped)

vars == <<sync_mode, keymap, holders, poisoned, cause, queue, keys, nSps, nCh,
          coreOp, apc, frames, afterExit, channels, slot, calls, lenAtEntry, lenAtPop,
          ranInst, pops, popped, ret, upc, idx, prev, pressed, held,
          redraw_requested, exit, overrides, released, tickLog,
          keysPrevTick, skew>>

coreVars == <<queue, keys, nSps, nCh>>
audioVars == <<apc, frames, afterExit, slot, calls, lenAtEntry, lenAtPop,
               ranInst, pops, popped, ret>>
uiVars == <<upc, idx, prev, pressed, held, redraw_requested, exit, tickLog,
            keysPrevTick, skew>>
injectVars == <<overrides, released>>
cfgVars == <<sync_mode, keymap, channels>>

\* ----------------------------------------------------------------- helpers
N == Len(keymap)
Indices == 0 .. (N - 1)
Range(s) == {s[j] : j \in 1 .. Len(s)}
Clamp(x) == IF x > MaxSkew THEN MaxSkew ELSE IF x < 0 - MaxSkew THEN 0 - MaxSkew ELSE x

NoOp == [ctx |-> "none", op |-> "none", arg |-> 0, qlen |-> 0]
Op(c, o, a) == [ctx |-> c, op |-> o, arg |-> a, qlen |-> Len(queue)]

\* sequences over S of length 0..n
SeqsUpTo(S, n) == UNION {[1 .. m -> S] : m \in 0 .. n}

\* ---------------------------------------------------------------- the lock
\* Mutex::lock(): granted only while no guard exists.
MutantLockFree(h) == TRUE
LockFree(h) == h = {}

\* lock().unwrap(): a poisoned mutex makes unwrap() panic.
MutantLockPanics(p) == FALSE
LockPanics(p) == p

\* A panic while a guard is held: unwinding drops the guard and poisons the
\* mutex; the context is gone.
Unwind(c) ==
    /\ holders' = holders \ {c}
    /\ poisoned' = (poisoned \/ c \in holders)
    /\ cause' = [cause EXCEPT ![c] = "core"]

\* lock().unwrap() on a poisoned mutex: the context panics without a guard.
PoisonPanic(c) ==
    /\ holders' = holders
    /\ poisoned' = poisoned
    /\ cause' = [cause EXCEPT ![c] = "poison"]

Acquire(c) ==
    /\ holders' = holders \cup {c}
    /\ UNCHANGED <<poisoned, cause>>

Release(c) ==
    /\ holders' = holders \ {c}
    /\ UNCHANGED <<poisoned, cause>>

lockVars == <<holders, poisoned, cause>>

\* ---------------------------------------------------------------- the Core
\* run_inst() / run_frame(): append some samples to the FIFO.
CoreOutputs == SeqsUpTo(Samples, MaxQueue - Len(queue))

\* ---------------------------------------------------------- KEY_OVERRIDES
\* vec.iter().position(|value| *value == k): first index (1-based), 0 = None
Position(vec, k) ==
    IF k \in Range(vec)
    THEN CHOOSE j \in 1 .. Len(vec) :
            /\ vec[j] = k
            /\ \A m \in 1 .. (j - 1) : vec[m] # k
    ELSE 0

\* Vec::swap_remove(index): the last element takes the removed one's place
SwapRemove(vec, j) ==
    [m \in 1 .. (Len(vec) - 1) |-> IF m = j THEN vec[Len(vec)] ELSE vec[m]]

\* press_key(key_code): vec.borrow_mut().push(virtual_key)
OverridePush(vec, k) == Append(vec, k)

\* release_key(key_code): remove the first occurrence, if any
OverrideRemove(vec, k) ==
    IF Position(vec, k) # 0 THEN SwapRemove(vec, Position(vec, k)) ELSE vec

\* --------------------------------------------------------------- decisions
\* lib.rs:62  while core.get_sample_queue_length() == 0
MutantPullLoopCond(n) == n <= 1
PullLoopCond(n) == n = 0

\* lib.rs:69  while core.get_sample_queue_length() > 0
MutantDrainLoopCond(n) == n > 1
DrainLoopCond(n) == n > 0

\* audio/mod.rs:29  for (_, sample) in data.iter_mut().enumerate()
\* data is the interleaved buffer: frames * channels slots
MutantDataLen(f, c) == f
DataLen(f, c) == f * c

\* display/mod.rs:203-204
MutantKeyDecision(i, ov, pr, he) ==
    \/ pr
    \/ he
KeyDecision(i, ov, pr, he) ==
    \/ Position(ov, keymap[i + 1]) # 0
    \/ pr
    \/ he

\* display/mod.rs:210  core.get_key_pressed(i) && !_prev_key_pressed
MutantPressEdge(now, before) == now
PressEdge(now, before) == now /\ ~before

\* display/mod.rs:214  !core.get_key_pressed(i) && _prev_key_pressed
ReleaseEdge(now, before) == ~now /\ before

\* display/mod.rs:218  if sync_mode == SyncModes::VSync
MutantRunsFrame(m) == TRUE
MutantNeverRunsFrame(m) == FALSE
RunsFrame(m) == m = "VSync"

\* -------------------------------------------------------------------- Init
Init ==
    /\ sync_mode \in SyncModes
    /\ keymap \in Keymaps
    /\ holders = {}
    /\ poisoned = FALSE
    /\ cause = [c \in {"audio", "ui"} |-> "none"]
    /\ channels \in 1 .. MaxChannels
    /\ queue = <<>>
    /\ keys = [i \in 0 .. (Len(keymap) - 1) |-> FALSE]
    /\ nSps = 0
    /\ nCh = 0
    /\ coreOp = NoOp
    /\ apc = "off"
    /\ frames = 0
    /\ afterExit = FALSE
    /\ slot = 0
    /\ calls = 0
    /\ lenAtEntry = 0
    /\ lenAtPop = 0
    /\ ranInst = FALSE
    /\ pops = 0
    /\ popped = Silence
    /\ ret = Silence
    /\ upc = "new_lock"
    /\ idx = 0
    /\ prev = FALSE
    /\ pressed = FALSE
    /\ held = FALSE
    /\ redraw_requested = FALSE
    /\ exit = FALSE
    /\ overrides = <<>>
    /\ released = {}
    /\ tickLog = <<>>
    /\ keysPrevTick = [i \in 0 .. (Len(keymap) - 1) |-> FALSE]
    /\ skew = 0

\* ------------------------------------------------- Frontend::new and start
\* lib.rs:78-79  arc_temp.lock().unwrap()
NewLock ==
    /\ upc = "new_lock"
    /\ LockFree(holders)
    /\ IF LockPanics(poisoned)
       THEN PoisonPanic("ui") /\ upc' = "panicked"
       ELSE Acquire("init") /\ upc' = "new_sps"
    /\ coreOp' = NoOp
    /\ UNCHANGED <<cfgVars, coreVars, audioVars, injectVars, idx, prev,
                   pressed, held, redraw_requested, exit, tickLog,
                   keysPrevTick, skew>>

\* lib.rs:80  core_temp.set_seconds_per_output_sample(..)
NewSetSeconds ==
    /\ upc = "new_sps"
    /\ nSps' = nSps + 1
    /\ upc' = "new_ch"
    /\ coreOp' = Op("init", "set_seconds_per_output_sample", 0)
    /\ UNCHANGED <<cfgVars, lockVars, queue, keys, nCh, audioVars, injectVars,
                   idx, prev, pressed, held, redraw_requested, exit, tickLog,
                   keysPrevTick, skew>>

\* lib.rs:81  core_temp.set_num_output_channels(..)
NewSetChannels ==
    /\ upc = "new_ch"
    /\ nCh' = nCh + 1
    /\ upc' = "new_drop"
    /\ coreOp' = Op("init", "set_num_output_channels", channels)
    /\ UNCHANGED <<cfgVars, lockVars, queue, keys, nSps, audioVars, injectVars,
                   idx, prev, pressed, held, redraw_requested, exit, tickLog,
                   keysPrevTick, skew>>

\* lib.rs:82  drop(core_temp)
NewDrop ==
    /\ upc = "new_drop"
    /\ Release("init")
    /\ upc' = "disp_lock"
    /\ coreOp' = NoOp
    /\ UNCHANGED <<cfgVars, coreVars, audioVars, injectVars, idx, prev,
                   pressed, held, redraw_requested, exit, tickLog,
                   keysPrevTick, skew>>

\* display/mod.rs:65  Display::new: core.lock().unwrap()
DisplayNewLock ==
    /\ upc = "disp_lock"
    /\ LockFree(holders)
    /\ IF LockPanics(poisoned)
       THEN PoisonPanic("ui") /\ upc' = "panicked"
       ELSE Acquire("init") /\ upc' = "disp_w"
    /\ coreOp' = NoOp
    /\ UNCHANGED <<cfgVars, coreVars, audioVars, injectVars, idx, prev,
                   pressed, held, redraw_requested, exit, tickLog,
                   keysPrevTick, skew>>

\* display/mod.rs:66  core_temp.get_width()
DisplayNewWidth ==
    /\ upc = "disp_w"
    /\ upc' = "disp_h"
    /\ coreOp' = Op("init", "get_width", 0)
    /\ UNCHANGED <<cfgVars, lockVars, coreVars, audioVars, injectVars, idx,
                   prev, pressed, held, redraw_requested, exit, tickLog,
                   keysPrevTick, skew>>

\* display/mod.rs:67  core_temp.get_height()
DisplayNewHeight ==
    /\ upc = "disp_h"
    /\ upc' = "disp_drop"
    /\ coreOp' = Op("init", "get_height", 0)
    /\ UNCHANGED <<cfgVars, lockVars, coreVars, audioVars, injectVars, idx,
                   prev, pressed, held, redraw_requested, exit, tickLog,
                   keysPrevTick, skew>>

\* display/mod.rs:68  drop(core_temp)
DisplayNewDrop ==
    /\ upc = "disp_drop"
    /\ Release("init")
    /\ upc' = "start_audio"
    /\ coreOp' = NoOp
    /\ UNCHANGED <<cfgVars, coreVars, audioVars, injectVars, idx, prev,
                   pressed, held, redraw_requested, exit, tickLog,
                   keysPrevTick, skew>>

\* lib.rs:97  self.audio_player.run(): output_stream.play()
StartAudio ==
    /\ upc = "start_audio"
    /\ apc' = IF apc = "off" THEN "idle" ELSE apc
    /\ upc' = "start_display"
    /\ coreOp' = NoOp
    /\ UNCHANGED <<cfgVars, lockVars, coreVars, frames, afterExit, slot, calls,
                   lenAtEntry, lenAtPop, ranInst, pops, popped, ret,
                   injectVars, idx, prev, pressed, held, redraw_requested,
                   exit, tickLog, keysPrevTick, skew>>

\* lib.rs:98  self.display.run(): the event loop starts dispatching
StartDisplay ==
    /\ upc = "start_display"
    /\ upc' = "idle"
    /\ coreOp' = NoOp
    /\ UNCHANGED <<cfgVars, lockVars, coreVars, audioVars, injectVars, idx,
                   prev, pressed, held, redraw_requested, exit, tickLog,
                   keysPrevTick, skew>>

\* ------------------------------------------------------- the audio context
\* audio/mod.rs:28-29  the device calls output_data_fn for some frames;
\* the first slot's get_sample() call is made
AudioCallbackBegin ==
    /\ apc = "idle"
    /\ \E f \in 1 .. MaxFrames :
        /\ frames' = f
        /\ afterExit' = exit
        /\ slot' = 0
        /\ calls' = 1
        /\ apc' = "lock"
    /\ coreOp' = NoOp
    /\ UNCHANGED <<cfgVars, lockVars, coreVars, lenAtEntry, lenAtPop, ranInst,
                   pops, popped, ret, uiVars, injectVars>>

\* lib.rs:76, audio/mod.rs:33  the stream exists once build_output_stream
\* has returned; a host that runs a stream upon creation calls
\* output_data_fn before audio/mod.rs:44 play() is reached
AudioCallbackEarly ==
    /\ apc = "off"
    /\ \E f \in 1 .. MaxFrames :
        /\ frames' = f
        /\ afterExit' = exit
        /\ slot' = 0
        /\ calls' = 1
        /\ apc' = "lock"
    /\ coreOp' = NoOp
    /\ UNCHANGED <<cfgVars, lockVars, coreVars, lenAtEntry, lenAtPop, ranInst,
                   pops, popped, ret, uiVars, injectVars>>

\* lib.rs:58  arc_child.lock().unwrap()
AudioLock ==
    /\ apc = "lock"
    /\ LockFree(holders)
    /\ IF LockPanics(poisoned)
       THEN /\ PoisonPanic("audio")
            /\ apc' = "panicked"
            /\ UNCHANGED <<lenAtEntry, ranInst, pops>>
       ELSE /\ Acquire("audio")
            /\ apc' = "check"
            /\ lenAtEntry' = Len(queue)
            /\ ranInst' = FALSE
            /\ pops' = 0
    /\ coreOp' = NoOp
    /\ UNCHANGED <<cfgVars, coreVars, frames, afterExit, slot, calls, lenAtPop, popped,
                   ret, uiVars, injectVars>>

\* lib.rs:62 and lib.rs:69  the while conditions of the two arms
AudioCheck ==
    /\ apc = "check"
    /\ coreOp' = Op("audio", "get_sample_queue_length", 0)
    /\ IF sync_mode = "AudioCallback"
       THEN /\ apc' = IF PullLoopCond(Len(queue)) THEN "inst" ELSE "pop"
            /\ ret' = ret
       ELSE /\ apc' = IF DrainLoopCond(Len(queue)) THEN "pop" ELSE "ret"
            /\ ret' = IF DrainLoopCond(Len(queue)) THEN ret ELSE Silence
    /\ UNCHANGED <<cfgVars, lockVars, coreVars, frames, afterExit, slot, calls,
                   lenAtEntry, lenAtPop, ranInst, pops, popped, uiVars,
                   injectVars>>

\* AudioRunInst with the guard scoped to the single run_inst() call
MutantAudioRunInst ==
    /\ apc = "inst"
    /\ coreOp' = Op("audio", "run_inst", 0)
    /\ \E out \in CoreOutputs : queue' = queue \o out
    /\ ranInst' = TRUE
    /\ apc' = "check"
    /\ Release("audio")
    /\ UNCHANGED <<cfgVars, keys, nSps, nCh, frames, afterExit, slot, calls, lenAtEntry,
                   lenAtPop, pops, popped, ret, uiVars, injectVars>>

\* lib.rs:63  core.run_inst()
AudioRunInst ==
    /\ apc = "inst"
    /\ coreOp' = Op("audio", "run_inst", 0)
    /\ \/ /\ \E out \in CoreOutputs : queue' = queue \o out
          /\ ranInst' = TRUE
          /\ apc' = "check"
          /\ UNCHANGED lockVars
       \/ /\ Unwind("audio")
          /\ apc' = "panicked"
          /\ UNCHANGED <<queue, ranInst>>
    /\ UNCHANGED <<cfgVars, keys, nSps, nCh, frames, afterExit, slot, calls, lenAtEntry,
                   lenAtPop, pops, popped, ret, uiVars, injectVars>>

\* lib.rs:65 and lib.rs:70  core.get_sample()
AudioPop ==
    /\ apc = "pop"
    /\ coreOp' = Op("audio", "get_sample", 0)
    /\ \/ /\ Len(queue) > 0
          /\ queue' = Tail(queue)
          /\ popped' = Head(queue)
          /\ lenAtPop' = Len(queue)
          /\ pops' = pops + 1
          /\ IF sync_mode = "AudioCallback"
             THEN apc' = "ret" /\ ret' = Head(queue)
             ELSE apc' = "check" /\ ret' = ret
          /\ UNCHANGED lockVars
       \/ /\ Unwind("audio")
          /\ apc' = "panicked"
          /\ UNCHANGED <<queue, popped, lenAtPop, pops, ret>>
    /\ UNCHANGED <<cfgVars, keys, nSps, nCh, frames, afterExit, slot, calls, lenAtEntry,
                   ranInst, uiVars, injectVars>>

\* lib.rs:75  the closure returns: the guard is dropped;
\* audio/mod.rs:29-31  *sample = get_sample(); next slot or end of the loop
AudioReturn ==
    /\ apc = "ret"
    /\ Release("audio")
    /\ slot' = slot + 1
    /\ IF slot + 1 < DataLen(frames, channels)
       THEN apc' = "lock" /\ calls' = calls + 1
       ELSE apc' = "done" /\ calls' = calls
    /\ lenAtEntry' = 0
    /\ lenAtPop' = 0
    /\ ranInst' = FALSE
    /\ pops' = 0
    /\ popped' = Silence
    /\ ret' = Silence
    /\ coreOp' = NoOp
    /\ UNCHANGED <<cfgVars, coreVars, frames, afterExit, uiVars, injectVars>>

\* audio/mod.rs:32  output_data_fn returns to the device
AudioCallbackEnd ==
    /\ apc = "done"
    /\ apc' = "idle"
    /\ frames' = 0
    /\ afterExit' = FALSE
    /\ slot' = 0
    /\ calls' = 0
    /\ coreOp' = NoOp
    /\ UNCHANGED <<cfgVars, lockVars, coreVars, lenAtEntry, lenAtPop, ranInst,
                   pops, popped, ret, uiVars, injectVars>>

\* ---------------------------------------------------------- the UI context
Log(o, a) == [op |-> o, arg |-> a]

\* display/mod.rs:169  Event::RedrawRequested is dispatched: asked for by
\* window.request_redraw() or raised by the platform itself
RedrawRequested ==
    /\ upc = "idle"
    /\ upc' = "rd_lock"
    /\ redraw_requested' = FALSE
    /\ skew' = IF sync_mode = "VSync" THEN Clamp(skew - 1) ELSE skew
    /\ coreOp' = NoOp
    /\ UNCHANGED <<cfgVars, lockVars, coreVars, audioVars, injectVars, idx,
                   prev, pressed, held, exit, tickLog, keysPrevTick>>

\* display/mod.rs:170  core.lock().unwrap()
RedrawLock ==
    /\ upc = "rd_lock"
    /\ LockFree(holders)
    /\ IF LockPanics(poisoned)
       THEN PoisonPanic("ui") /\ upc' = "panicked"
       ELSE Acquire("ui") /\ upc' = "rd_draw"
    /\ coreOp' = NoOp
    /\ UNCHANGED <<cfgVars, coreVars, audioVars, injectVars, idx, prev,
                   pressed, held, redraw_requested, exit, tickLog,
                   keysPrevTick, skew>>

\* display/mod.rs:171  core.draw(pixels.frame_mut())
RedrawDraw ==
    /\ upc = "rd_draw"
    /\ coreOp' = Op("ui", "draw", 0)
    /\ \/ upc' = "rd_drop" /\ UNCHANGED lockVars
       \/ Unwind("ui") /\ upc' = "panicked"
    /\ UNCHANGED <<cfgVars, coreVars, audioVars, injectVars, idx, prev,
                   pressed, held, redraw_requested, exit, tickLog,
                   keysPrevTick, skew>>

\* RedrawDrop without the drop(core): the guard lives on while presenting
MutantRedrawDrop ==
    /\ upc = "rd_drop"
    /\ upc' = "rd_render"
    /\ coreOp' = NoOp
    /\ UNCHANGED <<cfgVars, lockVars, coreVars, audioVars, injectVars, idx,
                   prev, pressed, held, redraw_requested, exit, tickLog,
                   keysPrevTick, skew>>

\* display/mod.rs:172  drop(core)
RedrawDrop ==
    /\ upc = "rd_drop"
    /\ Release("ui")
    /\ upc' = "rd_render"
    /\ coreOp' = NoOp
    /\ UNCHANGED <<cfgVars, coreVars, audioVars, injectVars, idx, prev,
                   pressed, held, redraw_requested, exit, tickLog,
                   keysPrevTick, skew>>

\* display/mod.rs:173-177  pixels.render(); an error exits the loop.
\* display/mod.rs:181  input.update(&event) is false for a redraw event
RedrawRender ==
    /\ upc = "rd_render"
    /\ \E ok \in BOOLEAN :
        /\ upc' = IF ok THEN "idle" ELSE "exited"
        /\ exit' = ~ok
    /\ coreOp' = NoOp
    /\ UNCHANGED <<cfgVars, lockVars, coreVars, audioVars, injectVars, idx,
                   prev, pressed, held, redraw_requested, tickLog,
                   keysPrevTick, skew>>

\* InputBatch without the return statements of display/mod.rs:185 and 193
MutantInputBatch ==
    /\ upc = "idle"
    /\ \E escape \in BOOLEAN, close \in BOOLEAN,
          resize \in {"none", "ok", "err"} :
        exit' = (escape \/ close \/ resize = "err")
    /\ upc' = "in_lock"
    /\ coreOp' = NoOp
    /\ UNCHANGED <<cfgVars, lockVars, coreVars, audioVars, injectVars, idx,
                   prev, pressed, held, tickLog, redraw_requested,
                   keysPrevTick, skew>>

\* display/mod.rs:181-195  input.update(&event) is true (the batch of input
\* events is complete): exit key, close request, resize
InputBatch ==
    /\ upc = "idle"
    /\ \E escape \in BOOLEAN, close \in BOOLEAN,
          resize \in {"none", "ok", "err"} :
        IF escape \/ close \/ resize = "err"
        THEN exit' = TRUE /\ upc' = "exited"
        ELSE exit' = exit /\ upc' = "in_lock"
    /\ coreOp' = NoOp
    /\ UNCHANGED <<cfgVars, lockVars, coreVars, audioVars, injectVars, idx,
                   prev, pressed, held, tickLog, redraw_requested,
                   keysPrevTick, skew>>

\* display/mod.rs:197-201  borrow KEY_OVERRIDES, core.lock().unwrap(), for
InputLock ==
    /\ upc = "in_lock"
    /\ LockFree(holders)
    /\ IF LockPanics(poisoned)
       THEN PoisonPanic("ui") /\ upc' = "panicked"
       ELSE Acquire("ui") /\ upc' = IF 0 < N THEN "in_prev" ELSE "in_frame"
    /\ coreOp' = NoOp
    /\ UNCHANGED <<cfgVars, coreVars, audioVars, injectVars, idx, prev,
                   pressed, held, redraw_requested, exit, tickLog,
                   keysPrevTick, skew>>

\* display/mod.rs:202  let _prev_key_pressed = core.get_key_pressed(i)
InputPrev ==
    /\ upc = "in_prev"
    /\ prev' = keys[idx]
    /\ upc' = "in_key"
    /\ coreOp' = Op("ui", "get_key_pressed", idx)
    /\ UNCHANGED <<cfgVars, lockVars, coreVars, audioVars, injectVars, idx,
                   pressed, held, redraw_requested, exit, tickLog,
                   keysPrevTick, skew>>

\* display/mod.rs:203-208  press_key(i) or release_key(i); the state of
\* the physical key is whatever the input helper answers
InputKey ==
    /\ upc = "in_key"
    /\ \E pr \in BOOLEAN, he \in BOOLEAN :
        /\ pressed' = pr
        /\ held' = he
        /\ IF KeyDecision(idx, overrides, pr, he)
           THEN /\ keys' = [keys EXCEPT ![idx] = TRUE]
                /\ coreOp' = Op("ui", "press_key", idx)
                /\ tickLog' = Append(tickLog, Log("press_key", idx))
           ELSE /\ keys' = [keys EXCEPT ![idx] = FALSE]
                /\ coreOp' = Op("ui", "release_key", idx)
                /\ tickLog' = Append(tickLog, Log("release_key", idx))
    /\ upc' = "in_note"
    /\ UNCHANGED <<cfgVars, lockVars, queue, nSps, nCh, audioVars, injectVars,
                   idx, prev, redraw_requested, exit, keysPrevTick, skew>>

\* display/mod.rs:209-217  the edge notifications of index i, end of the
\* loop body
MutantNotes(now, before, i) ==
    (IF PressEdge(now, before) THEN <<Log("on_key_pressed", 0)>> ELSE <<>>)
    \o (IF ReleaseEdge(now, before) THEN <<Log("on_key_released", 0)>> ELSE <<>>)
Notes(now, before, i) ==
    (IF PressEdge(now, before) THEN <<Log("on_key_pressed", i)>> ELSE <<>>)
    \o (IF ReleaseEdge(now, before) THEN <<Log("on_key_released", i)>> ELSE <<>>)

InputNotify ==
    /\ upc = "in_note"
    /\ tickLog' = tickLog \o Notes(keys[idx], prev, idx)
    /\ coreOp' = Op("ui", "get_key_pressed", idx)
    /\ idx' = idx + 1
    /\ prev' = FALSE
    /\ pressed' = FALSE
    /\ held' = FALSE
    /\ upc' = IF idx + 1 < N THEN "in_prev" ELSE "in_frame"
    /\ UNCHANGED <<cfgVars, lockVars, coreVars, audioVars, injectVars,
                   redraw_requested, exit, keysPrevTick, skew>>

\* display/mod.rs:218-220  if sync_mode == VSync { core.run_frame() }
InputFrame ==
    /\ upc = "in_frame"
    /\ IF RunsFrame(sync_mode)
       THEN /\ coreOp' = Op("ui", "run_frame", 0)
            /\ \/ /\ \E out \in CoreOutputs : queue' = queue \o out
                  /\ tickLog' = Append(tickLog, Log("run_frame", 0))
                  /\ skew' = Clamp(skew + 1)
                  /\ upc' = "in_drop"
                  /\ UNCHANGED lockVars
               \/ /\ Unwind("ui")
                  /\ upc' = "panicked"
                  /\ UNCHANGED <<queue, tickLog, skew>>
       ELSE /\ coreOp' = NoOp
            /\ upc' = "in_drop"
            /\ UNCHANGED <<lockVars, queue, tickLog, skew>>
    /\ UNCHANGED <<cfgVars, keys, nSps, nCh, audioVars, injectVars, idx, prev,
                   pressed, held, redraw_requested, exit, keysPrevTick>>

\* display/mod.rs:221  end of the closure: the guard and the borrow are dropped
InputDrop ==
    /\ upc = "in_drop"
    /\ Release("ui")
    /\ upc' = "in_redraw"
    /\ keysPrevTick' = keys
    /\ tickLog' = <<>>
    /\ idx' = 0
    /\ coreOp' = NoOp
    /\ UNCHANGED <<cfgVars, coreVars, audioVars, injectVars, prev, pressed,
                   held, redraw_requested, exit, skew>>

\* display/mod.rs:223  window.request_redraw(); the handler returns
InputRedraw ==
    /\ upc = "in_redraw"
    /\ redraw_requested' = TRUE
    /\ upc' = "idle"
    /\ coreOp' = NoOp
    /\ UNCHANGED <<cfgVars, lockVars, coreVars, audioVars, injectVars, idx,
                   prev, pressed, held, exit, tickLog, keysPrevTick, skew>>

\* ------------------------------------------------- the exported injections
\* display/mod.rs:33-39  press_key(key_code), called by the host between
\* dispatches
InjectPress ==
    /\ upc = "idle"
    /\ Len(overrides) < MaxOverrides
    /\ \E k \in PhysKeys :
        /\ overrides' = OverridePush(overrides, k)
        /\ released' = released \ {k}
    /\ coreOp' = NoOp
    /\ UNCHANGED <<cfgVars, lockVars, coreVars, audioVars, uiVars>>

\* display/mod.rs:44-53  release_key(key_code)
InjectRelease ==
    /\ upc = "idle"
    /\ \E k \in PhysKeys :
        /\ overrides' = OverrideRemove(overrides, k)
        /\ released' = released \cup {k}
    /\ coreOp' = NoOp
    /\ UNCHANGED <<cfgVars, lockVars, coreVars, audioVars, uiVars>>

\* display/mod.rs:198-221  `let overrides = vec.borrow()` is alive from the
\* start of key processing to the end of the closure
OverridesBorrowed ==
    upc \in {"in_prev", "in_key", "in_note", "in_frame", "in_drop"}

\* display/mod.rs:35, 46  vec.borrow_mut() on the RefCell panics while a
\* shared borrow is alive
BorrowMutPanics(shared) == shared

\* display/mod.rs:209-216  index i has an edge and the observer, from inside
\* on_key_pressed / on_key_released, calls the exported press_key /
\* release_key (display/mod.rs:33-53) before it returns
ObserverInjects ==
    /\ upc = "in_note"
    /\ Notes(keys[idx], prev, idx) # <<>>
    /\ tickLog' = tickLog \o Notes(keys[idx], prev, idx)
    /\ coreOp' = Op("ui", "get_key_pressed", idx)
    /\ \E k \in PhysKeys, press \in BOOLEAN :
        IF BorrowMutPanics(OverridesBorrowed)
        THEN /\ holders' = holders \ {"ui"}
             /\ poisoned' = TRUE
             /\ cause' = [cause EXCEPT !["ui"] = "borrow"]
             /\ upc' = "panicked"
             /\ UNCHANGED <<injectVars, idx, prev, pressed, held>>
        ELSE /\ press => Len(overrides) < MaxOverrides
             /\ overrides' = IF press THEN OverridePush(overrides, k)
                                     ELSE OverrideRemove(overrides, k)
             /\ released' = IF press THEN released \ {k}
                                    ELSE released \cup {k}
             /\ idx' = idx + 1
             /\ prev' = FALSE
             /\ pressed' = FALSE
             /\ held' = FALSE
             /\ upc' = IF idx + 1 < N THEN "in_prev" ELSE "in_frame"
             /\ UNCHANGED lockVars
    /\ UNCHANGED <<cfgVars, coreVars, audioVars, redraw_requested, exit,
                   keysPrevTick, skew>>

\* -------------------------------------------------------------------- Next
\* Frontend::new and Frontend::start
Construct ==
    \/ NewLock
    \/ NewSetSeconds
    \/ NewSetChannels
    \/ NewDrop
    \/ DisplayNewLock
    \/ DisplayNewWidth
    \/ DisplayNewHeight
    \/ DisplayNewDrop
    \/ StartAudio
    \/ StartDisplay

\* the audio context
Audio ==
    \/ AudioCallbackBegin
    \/ AudioLock
    \/ AudioCheck
    \/ AudioRunInst
    \/ AudioPop
    \/ AudioReturn
    \/ AudioCallbackEnd

\* the UI context: the handler given to event_loop.run
Display ==
    \/ RedrawRequested
    \/ RedrawLock
    \/ RedrawDraw
    \/ RedrawDrop
    \/ RedrawRender
    \/ InputBatch
    \/ InputLock
    \/ InputPrev
    \/ InputKey
    \/ InputNotify
    \/ InputFrame
    \/ InputDrop
    \/ InputRedraw

\* the host's calls of the exported press_key / release_key
Inject ==
    \/ InjectPress
    \/ InjectRelease

Next ==
    \/ Construct
    \/ AudioCallbackEarly
    \/ Audio
    \/ Display
    \/ ObserverInjects
    \/ Inject

\* the whole program
Spec == Init /\ [][Next]_vars

\* the two contexts and the lock, with a host that injects no keys
NextCore ==
    \/ Construct
    \/ Audio
    \/ Display

SpecCore == Init /\ [][NextCore]_vars

\* the UI context and the injections, with a device that never calls back
NextKeys ==
    \/ Construct
    \/ Display
    \/ Inject

SpecKeys == Init /\ [][NextKeys]_vars

\* the UI context with an observer that injects keys from inside its
\* notification handlers
NextReentry ==
    \/ Construct
    \/ Display
    \/ ObserverInjects
    \/ Inject

SpecReentry == Init /\ [][NextReentry]_vars

\* Frontend::new and Frontend::start on a host that runs the stream upon
\* creation, up to the start of the event loop
NextStartup ==
    \/ Construct
    \/ AudioCallbackEarly
    \/ Audio

SpecStartup == Init /\ [][NextStartup]_vars

\* the program with total Core operations: no call panics, so no guard is
\* dropped by unwinding and no lock().unwrap() fails
TotalDisplay == Display /\ cause' = cause
TotalAudio == Audio /\ cause' = cause
TotalAudioLock == AudioLock /\ cause' = cause

NextTotal ==
    \/ Construct
    \/ TotalAudio
    \/ TotalDisplay

\* fair scheduling: the UI context takes a step that stays possible, and the
\* audio context's lock() is granted if the lock is free again and again
SpecFair ==
    /\ Init
    /\ [][NextTotal]_vars
    /\ WF_vars(Construct)
    /\ WF_vars(TotalDisplay)
    /\ SF_vars(TotalAudioLock)

\* lib.rs:62-64 with a Core (lib.rs:29-42 leaves it to the implementor)
\* whose run_inst() returns without ever queuing a sample
SilentRunInst ==
    /\ AudioRunInst
    /\ queue' = queue
    /\ apc' = "check"

\* lib.rs:61  the AudioCallback arm of the producer
InitSilent ==
    /\ Init
    /\ sync_mode = "AudioCallback"

\* the program in AudioCallback mode around a Core that never has a sample:
\* the pop and the return of the producer are never reached
NextSilent ==
    \/ Construct
    \/ AudioCallbackBegin
    \/ AudioLock
    \/ AudioCheck
    \/ SilentRunInst
    \/ Display

\* both contexts are scheduled fairly: a step that stays possible is taken,
\* and a lock() that is possible again and again is granted
SpecSilent ==
    /\ InitSilent
    /\ [][NextSilent]_vars
    /\ WF_vars(Construct)
    /\ WF_vars(Display)
    /\ SF_vars(RedrawLock)
    /\ SF_vars(InputLock)
    /\ WF_vars(AudioCallbackBegin \/ AudioCheck \/ SilentRunInst)
    /\ SF_vars(AudioLock)

TypeOK ==
    /\ holders \subseteq {"init", "audio", "ui"}
    /\ afterExit \in BOOLEAN
    /\ Len(queue) <= MaxQueue
    /\ Len(overrides) <= MaxOverrides

\* =================================================================== claims
AudioCritical == {"check", "inst", "pop", "ret"}
UICritical == {"rd_draw", "rd_drop", "in_prev", "in_key", "in_note",
               "in_frame", "in_drop"}
InitCritical == {"new_sps", "new_ch", "new_drop", "disp_w", "disp_h",
                 "disp_drop"}

KeyCalls(log) ==
    SelectSeq(log, LAMBDA e : e.op \in {"press_key", "release_key"})
Count(log, o, a) ==
    Cardinality({j \in 1 .. Len(log) : log[j] = Log(o, a)})

\* C1: at most one context holds the Core lock; a context is at a Core
\* operation (draw, press_key, release_key, run_inst, run_frame, get_sample,
\* get_sample_queue_length, get_key_pressed) only while it holds the lock, so
\* the audio context and the UI context are never inside Core operations at
\* the same time.
C1_MutualExclusion ==
    /\ Cardinality(holders) <= 1
    /\ apc \in AudioCritical => "audio" \in holders
    /\ upc \in UICritical => "ui" \in holders
    /\ upc \in InitCritical => "init" \in holders
    /\ ~(apc \in AudioCritical /\ upc \in UICritical)
    /\ coreOp.ctx \in {"audio", "ui"} =>
          \/ coreOp.ctx \in holders
          \/ cause[coreOp.ctx] = "core"

\* C1 witness: the audio context waits for the lock while the UI context,
\* holding it, is about to draw.
C1_Witness ==
    /\ apc = "lock"
    /\ upc = "rd_draw"
    /\ holders = {"ui"}

\* C2: in AudioCallback mode run_inst() is called only while the pending
\* count is 0; the producer pops only when the count is positive; and when
\* it returns it has called run_inst() exactly if the count was 0 at entry,
\* has popped exactly once, returns the popped value, and has left the count
\* one below the count at the pop.
C2_AudioPull ==
    sync_mode = "AudioCallback" =>
        /\ coreOp.op = "run_inst" => coreOp.qlen = 0
        /\ apc = "pop" => (Len(queue) > 0 /\ pops = 0)
        /\ apc = "ret" =>
              /\ pops = 1
              /\ ret = popped
              /\ lenAtPop > 0
              /\ Len(queue) = lenAtPop - 1
              /\ (ranInst <=> lenAtEntry = 0)

\* C2 witness: a producer invocation that had to step the Core returns.
C2_Witness ==
    /\ sync_mode = "AudioCallback"
    /\ apc = "ret"
    /\ ranInst
    /\ lenAtEntry = 0

\* C3: in VSync mode the audio context only reads the pending count and
\* pops; when a producer invocation returns, its value is 0.0, the pending
\* count is 0 and it has called neither run_inst() nor run_frame().
C3_FrameLockedDrain ==
    sync_mode = "VSync" =>
        /\ coreOp.ctx = "audio" =>
              coreOp.op \in {"get_sample_queue_length", "get_sample"}
        /\ apc \in AudioCritical => ~ranInst
        /\ apc = "ret" =>
              /\ ret = Silence
              /\ Len(queue) = 0
              /\ pops = lenAtEntry

\* C3 witness: a producer invocation that found two pending samples returns.
C3_Witness ==
    /\ sync_mode = "VSync"
    /\ apc = "ret"
    /\ lenAtEntry = 2
    /\ pops = 2

\* C4: in AudioCallback mode run_inst() is called only by the audio context,
\* run_frame() by nobody, and the UI context's Core operations are draw,
\* get_key_pressed, press_key and release_key only.
C4_AudioCallbackOps ==
    sync_mode = "AudioCallback" =>
        /\ coreOp.op = "run_inst" => coreOp.ctx = "audio"
        /\ coreOp.op # "run_frame"
        /\ coreOp.ctx = "ui" =>
              coreOp.op \in {"draw", "get_key_pressed", "press_key",
                             "release_key"}

\* C4 witness: an input batch in AudioCallback mode has passed the place of
\* run_frame() and is about to drop the lock.
C4_Witness ==
    /\ sync_mode = "AudioCallback"
    /\ upc = "in_drop"
    /\ "ui" \in holders

\* C5 (as claimed): in VSync mode run_frame() calls and redraw ticks
\* correspond one-to-one: there is never a redraw tick without its
\* run_frame(), nor two run_frame() calls for one redraw tick.
C5_FramePerRedrawTick ==
    sync_mode = "VSync" => (skew >= 0 /\ skew <= 1)

\* C6: in an input batch the press_key / release_key calls so far are one
\* per index, in ascending order from 0; the call just made for index i is
\* press_key(i) exactly when keymap[i] is in the override store or was just
\* pressed or is held; after the loop every index 0..N-1 has had its call.
C6_KeyDecision ==
    /\ upc \in UICritical =>
          \A j \in 1 .. Len(KeyCalls(tickLog)) :
              KeyCalls(tickLog)[j].arg = j - 1
    /\ upc = "in_note" =>
          /\ Len(KeyCalls(tickLog)) = idx + 1
          /\ KeyCalls(tickLog)[idx + 1].op =
                IF \/ keymap[idx + 1] \in Range(overrides)
                   \/ pressed
                   \/ held
                THEN "press_key"
                ELSE "release_key"
          /\ keys[idx] = (KeyCalls(tickLog)[idx + 1].op = "press_key")
    /\ upc \in {"in_frame", "in_drop"} => Len(KeyCalls(tickLog)) = N

\* C6 witness: the key of index 1 is overridden and physically idle, and
\* press_key(1) has just been called.
C6_Witness ==
    /\ upc = "in_note"
    /\ idx = 1
    /\ keymap[idx + 1] \in Range(overrides)
    /\ ~pressed
    /\ ~held
    /\ keys[idx]

\* C7 (as claimed): a key whose last exported call was release_key is not in
\* the override store, so with no physical input the input batch releases
\* its logical index.
C7_LastWriteWins ==
    /\ \A k \in released : k \notin Range(overrides)
    /\ (upc = "in_note" /\ keymap[idx + 1] \in released /\ ~pressed /\ ~held)
          => ~keys[idx]

\* C8: when an input batch has processed all indices, it has emitted
\* on_key_pressed(i) once if is_key_pressed(i) went from false (end of the
\* previous batch) to true and not at all otherwise, and on_key_released(i)
\* once if it went from true to false and not at all otherwise.
C8_EdgeNotifications ==
    upc \in {"in_frame", "in_drop"} =>
        \A i \in Indices :
            /\ Count(tickLog, "on_key_pressed", i) =
                  IF ~keysPrevTick[i] /\ keys[i] THEN 1 ELSE 0
            /\ Count(tickLog, "on_key_released", i) =
                  IF keysPrevTick[i] /\ ~keys[i] THEN 1 ELSE 0

\* C8 witness: one batch in which index 0 is released and index 1 pressed.
C8_Witness ==
    /\ upc = "in_frame"
    /\ keysPrevTick[0] /\ ~keys[0]
    /\ ~keysPrevTick[1] /\ keys[1]
    /\ Count(tickLog, "on_key_released", 0) = 1
    /\ Count(tickLog, "on_key_pressed", 1) = 1

\* C9 (as claimed): a finished audio callback has invoked the producer once
\* per requested frame.
C9_ProducerPerFrame ==
    apc = "done" => calls = frames

\* C9 (amended): the producer is invoked once per slot of the interleaved
\* buffer: a finished callback for F frames on a C-channel device has made
\* F * C invocations, and during the callback the invocations made are one
\* more than the slots already written.
C9_ProducerPerSlot ==
    /\ apc = "done" => (calls = frames * channels /\ slot = calls)
    /\ apc \in AudioCritical \cup {"lock"} =>
          (calls = slot + 1 /\ calls <= frames * channels)

\* C9 witness: a callback for 2 frames on a 2-channel device has finished.
C9_Witness ==
    /\ apc = "done"
    /\ frames = 2
    /\ channels = 2
    /\ calls = 4

\* C10 (as claimed): after a panic under the lock the other context never
\* fails at the lock (it blocks).
C10_OtherContextBlocks ==
    \A c \in {"audio", "ui"} : cause[c] # "poison"

\* C10 (amended): once a Core operation has panicked under the lock, the
\* lock is free and poisoned for good: nobody holds it again, a context
\* waiting for it is not blocked, and a context that attempted it afterwards
\* has panicked at lock().unwrap().
C10_PoisonedLockFails ==
    /\ (\E c \in {"audio", "ui"} : cause[c] = "core") => poisoned
    /\ poisoned =>
          /\ holders = {}
          /\ apc \notin AudioCritical
          /\ upc \notin UICritical
          /\ apc = "lock" => ENABLED AudioLock
          /\ upc = "rd_lock" => ENABLED RedrawLock
          /\ upc = "in_lock" => ENABLED InputLock
    /\ cause["audio"] = "poison" => (apc = "panicked" /\ cause["ui"] = "core")
    /\ cause["ui"] = "poison" => (upc = "panicked" /\ cause["audio"] = "core")

\* C10 witness: run_inst() (or get_sample()) panicked in the audio context
\* and the UI context then panicked at its lock().unwrap().
C10_Witness ==
    /\ cause["audio"] = "core"
    /\ cause["ui"] = "poison"
    /\ upc = "panicked"

\* C11: the exit conditions are terminal and free of Core side effects. The
\* step that sets exit (exit key, close request or failed resize in an input
\* batch; failed presentation in a redraw tick) makes no Core call, takes no
\* lock, logs no press_key / release_key / run_frame and requests no redraw;
\* once exit is set the handler has returned for good, the UI context does
\* not hold the lock and it makes no further Core call or redraw request.
C11_ExitTerminal ==
    /\ [](exit => (upc = "exited" /\ "ui" \notin holders))
    /\ [][(~exit /\ exit') =>
            /\ coreOp' = NoOp
            /\ tickLog = <<>> /\ tickLog' = <<>>
            /\ UNCHANGED <<coreVars, holders, redraw_requested>>]_vars
    /\ [][exit =>
            /\ exit'
            /\ coreOp'.ctx # "ui"
            /\ UNCHANGED <<keys, redraw_requested, tickLog, upc>>]_vars

\* C11 witness: exit was set by an input batch (a redraw request of the
\* previous tick is still pending, so no redraw tick came in between) after
\* a tick that had pressed key 0.
C11_Witness ==
    /\ exit
    /\ upc = "exited"
    /\ redraw_requested
    /\ keys[0]

\* C12: in VSync mode an input batch that reaches key processing calls
\* run_frame() exactly once, after the press_key / release_key call of the
\* last index N-1 and before the redraw request; in AudioCallback mode it
\* calls run_frame() zero times. No run_frame() is made while indices are
\* still being processed, and the redraw request is made only after the
\* lock was dropped at the end of key processing.
C12_FramePerInputTick ==
    /\ [](/\ upc \in {"in_prev", "in_key", "in_note", "in_frame"} =>
                Count(tickLog, "run_frame", 0) = 0
          /\ upc = "in_drop" =>
                /\ Len(KeyCalls(tickLog)) = N
                /\ IF sync_mode = "VSync"
                   THEN /\ Count(tickLog, "run_frame", 0) = 1
                        /\ tickLog[Len(tickLog)] = Log("run_frame", 0)
                        /\ \E j \in 1 .. (Len(tickLog) - 1) :
                              /\ tickLog[j].op \in {"press_key", "release_key"}
                              /\ tickLog[j].arg = N - 1
                   ELSE Count(tickLog, "run_frame", 0) = 0)
    /\ [][(upc' = "in_redraw" /\ upc # "in_redraw") => upc = "in_drop"]_vars
    /\ [][(redraw_requested' /\ ~redraw_requested) => upc = "in_redraw"]_vars

\* C12 witness: a VSync batch at the end of key processing with its one
\* run_frame() logged after the key calls and an edge notification.
C12_Witness ==
    /\ sync_mode = "VSync"
    /\ upc = "in_drop"
    /\ Len(tickLog) > N + 1
    /\ Count(tickLog, "run_frame", 0) = 1

\* C13 (as claimed): within an input batch no on_key_pressed /
\* on_key_released notification is emitted before the press_key /
\* release_key call of the last index N-1.
C13_NotifyAfterAllIndices ==
    \A j \in 1 .. Len(tickLog) :
        tickLog[j].op \in {"on_key_pressed", "on_key_released"} =>
            \E k \in 1 .. (j - 1) :
                /\ tickLog[k].op \in {"press_key", "release_key"}
                /\ tickLog[k].arg = N - 1

\* C13 (amended): edge notifications are emitted per index, inside the loop
\* over the indices: the notification of index i directly follows the
\* press_key / release_key call of index i (on_key_pressed follows
\* press_key, on_key_released follows release_key), before index i+1 is
\* looked at.
C13_NotifyPerIndex ==
    \A j \in 1 .. Len(tickLog) :
        tickLog[j].op \in {"on_key_pressed", "on_key_released"} =>
            /\ j > 1
            /\ tickLog[j - 1].arg = tickLog[j].arg
            /\ tickLog[j].op = "on_key_pressed" =>
                  tickLog[j - 1].op = "press_key"
            /\ tickLog[j].op = "on_key_released" =>
                  tickLog[j - 1].op = "release_key"

\* C13 witness: the notification of index 0 is in the log before the key
\* call of index 1, the last index.
C13_Witness ==
    /\ Len(tickLog) >= 3
    /\ tickLog[2] = Log("on_key_pressed", 0)
    /\ tickLog[3].op \in {"press_key", "release_key"}
    /\ tickLog[3].arg = N - 1

\* C14: in AudioCallback mode the audio context holds the Core lock, alone,
\* from its first pending-count check until after the get_sample() pop of
\* the same producer invocation: every step taken while the invocation is
\* between its check and its pop leaves the lock with the audio context and
\* is not a Core call of the UI context (or of the constructor), so no
\* draw, press_key, release_key or get_key_pressed comes between two
\* run_inst() calls or between the last run_inst() and the pop.
C14_ProducerAtomic ==
    /\ [](sync_mode = "AudioCallback" =>
            /\ apc \in AudioCritical =>
                  (holders = {"audio"} /\ upc \notin UICritical \cup InitCritical)
            /\ coreOp.ctx \in {"ui", "init"} => apc \notin AudioCritical)
    /\ [][(sync_mode = "AudioCallback" /\ apc \in {"check", "inst", "pop"}) =>
            /\ coreOp'.ctx \notin {"ui", "init"}
            /\ apc' # "panicked" => holders' = {"audio"}]_vars

\* C14 witness: the audio context is between two run_inst() calls of one
\* invocation while the UI context waits at the lock of an input batch.
C14_Witness ==
    /\ sync_mode = "AudioCallback"
    /\ apc = "inst"
    /\ ranInst
    /\ upc = "in_lock"
    /\ holders = {"audio"}

\* C15: a redraw tick takes the Core lock, calls draw() once and releases
\* the lock before presenting. draw() is called only at the one draw step
\* of a redraw tick, under the lock; presentation is entered only from the
\* release; while presenting the UI context does not hold the lock, so an
\* audio context waiting at a lock that is free and not poisoned can take it.
C15_RedrawLockScope ==
    /\ [](upc = "rd_render" =>
            /\ "ui" \notin holders
            /\ (apc = "lock" /\ holders = {}) => ENABLED AudioLock)
    /\ [][coreOp'.op = "draw" =>
            (upc = "rd_draw" /\ upc' \in {"rd_drop", "panicked"}
             /\ holders = {"ui"})]_vars
    /\ [][(upc = "rd_draw" /\ upc' # "rd_draw") => coreOp'.op = "draw"]_vars
    /\ [][(upc' = "rd_render" /\ upc # "rd_render") =>
            (upc = "rd_drop" /\ "ui" \in holders /\ "ui" \notin holders')]_vars

\* C15 witness: the audio context is inside a producer invocation, holding
\* the lock, while the UI context presents the framebuffer.
C15_Witness ==
    /\ upc = "rd_render"
    /\ apc = "pop"
    /\ holders = {"audio"}

\* C16: in AudioCallback mode with a Core that never has a pending sample,
\* under fair scheduling of both contexts, once the audio context holds the
\* Core lock it holds it at every later step, the UI context never holds
\* it again and makes no further Core call (no draw, no key processing),
\* and a UI context waiting at lock() stays there.
C16_UIStarved ==
    /\ [][("audio" \in holders) =>
            /\ holders' = {"audio"}
            /\ coreOp'.ctx # "ui"
            /\ upc' \notin UICritical
            /\ upc \in {"rd_lock", "in_lock"} => upc' = upc]_vars
    /\ []((apc \in AudioCritical) => [](apc \in {"check", "inst"}))

\* C16 witness: the audio context has called run_inst() at least once in
\* its invocation, still has no sample, and the UI context waits at the
\* lock of a redraw tick.
C16_Witness ==
    /\ apc = "inst"
    /\ ranInst
    /\ Len(queue) = 0
    /\ upc = "rd_lock"
    /\ holders = {"audio"}

\* C17: the UI context holds the Core lock only for a bounded piece of
\* work: under one acquisition it makes at most N press_key / release_key
\* calls and at most one run_frame() (or the one draw of a redraw tick), and
\* with total Core operations and fair scheduling every UI acquisition is
\* followed by its release and every lock request of the audio context is
\* eventually granted, in both sync modes.
C17_AudioLockGranted ==
    /\ []("ui" \in holders =>
            /\ Len(KeyCalls(tickLog)) <= N
            /\ Count(tickLog, "run_frame", 0) <= 1)
    /\ ("ui" \in holders) ~> ("ui" \notin holders)
    /\ (apc = "lock") ~> (apc = "check" /\ "audio" \in holders)

\* C17 witness: the audio context got the lock it had requested while the
\* UI context, having finished a whole input batch with all its key calls,
\* is between that batch's release and its redraw request.
C17_Witness ==
    /\ apc = "check"
    /\ "audio" \in holders
    /\ upc = "in_redraw"
    /\ keysPrevTick[N - 1]

\* C18: once the event loop has exited (close request, exit key, failed
\* resize or failed presentation) the UI context does not hold the Core
\* lock and the lock is not poisoned; the exiting step itself changes
\* nothing the audio context can see (no signal: its state, the lock and
\* the Core are untouched); and an audio context that has not itself
\* panicked can always take its next step, so callbacks begun after the
\* exit lock, produce and return as before.
C18_AudioSurvivesExit ==
    /\ [](exit =>
            /\ "ui" \notin holders
            /\ apc # "panicked" => (~poisoned /\ ENABLED Audio)
            /\ (apc = "lock" /\ ~poisoned) => ENABLED AudioLock)
    /\ [][(exit' # exit) => UNCHANGED <<audioVars, lockVars, coreVars>>]_vars

\* C18 witness: a callback that began after the exit has made all its
\* producer invocations and is about to return to the device.
C18_Witness ==
    /\ exit
    /\ afterExit
    /\ apc = "done"
    /\ calls >= 2

\* C19 (as claimed): set_seconds_per_output_sample and set_num_output_channels
\* are each called at most once, by the constructor, under the lock and
\* before any callback of the device; no producer invocation is under way
\* or finished before both have been called; the constructor's lock is free
\* when the event loop starts.
C19_ConfiguredBeforeProducer ==
    /\ nSps <= 1 /\ nCh <= 1
    /\ coreOp.op \in {"set_seconds_per_output_sample",
                      "set_num_output_channels"} =>
          (coreOp.ctx = "init" /\ "init" \in holders)
    /\ apc # "off" => (nSps = 1 /\ nCh = 1)
    /\ coreOp.ctx = "audio" => (nSps = 1 /\ nCh = 1)
    /\ upc \in {"start_audio", "start_display", "idle"} =>
          (nSps = 1 /\ nCh = 1 /\ "init" \notin holders)

\* C20 (as claimed): an observer that calls the exported press_key /
\* release_key from inside on_key_pressed / on_key_released, while the
\* input batch is still reading the override store, completes without
\* failure: the UI context never panics at the store's borrow_mut().
C20_ReentrantInjectSafe ==
    ~(upc = "panicked" /\ cause["ui"] = "borrow")

====
